---- MODULE Spec2Model ----
(***************************************************************************)
(* FakeDetectorTrainer (src/src/training.py): the epoch loop, its loss     *)
(* histories, the checkpoint save/load pair, device binding, the           *)
(* tensorboard writer and predict.                                         *)
(*                                                                         *)
(* The program is single threaded.  A train call is a sequence of steps    *)
(* (one per batch, one per end of pass) so that an exception raised by a   *)
(* step function in the middle of an epoch is a state of the model; all    *)
(* other methods are one action each and run only while no train call is   *)
(* in progress (pc = "idle").  No method catches an exception: a raise     *)
(* ends the run (pc = "raised") in the state the raising statement found.  *)
(***************************************************************************)
EXTENDS Integers, Sequences, FiniteSets, TLC

\* ------------------------------------------------------------------ bounds
MaxTotalEpochs == 2
MaxBatches == 2
MaxRecords == 2
MaxWarnings == 1

\* ------------------------------------------------------- program constants
DefaultSeed == 42

\* ------------------------------------------------------------------ values
\* Python floats are modelled as reduced fractions, None as an absent value.
RECURSIVE GCD(_, _)
GCD(a, b) == IF b = 0 THEN a ELSE GCD(b, a % b)

None == [some |-> FALSE, num |-> 0, den |-> 1]

Float(n, d) ==
    LET g == GCD(n, d)
    IN  [some |-> TRUE, num |-> n \div g, den |-> d \div g]

\* Python truthiness of a loss value: None and 0.0 are falsy.
Truthy(v) == v.some /\ v.num # 0

\* A batch yielded by a DataLoader: its data x, its number of samples, and
\* whether its shape fits the model (a misshaped batch makes the forward
\* pass raise).
Batch(i) == [x |-> i % 2, size |-> 1 + (i % 2), ok |-> TRUE]
BadBatch == [x |-> 0, size |-> 1, ok |-> FALSE]

\* A DataLoader is its sequence of batches; NoLoader is Python's None.
Loader(bs) == [bound |-> TRUE, batches |-> bs]
NoLoader == [bound |-> FALSE, batches |-> <<>>]
GoodLoader(k) == Loader([i \in 1..k |-> Batch(i)])
BadLoader(k) == Loader([i \in 1..k |-> IF i = k THEN BadBatch ELSE Batch(i)])

\* The DataLoaders a caller binds; either argument of set_loaders may be
\* None.
TrainLoaderSet ==
    {NoLoader, GoodLoader(0), GoodLoader(1), GoodLoader(MaxBatches),
     BadLoader(MaxBatches)}
ValLoaderSet ==
    {NoLoader, GoodLoader(0), GoodLoader(1), GoodLoader(MaxBatches), BadLoader(1)}

DeviceSet == {"cpu", "cuda", "mps9"}
NoDevice == "unset"
PathSet == {"a.pt", "b.pt"}
InputSet == {0, 1}
NoFile == [exists |-> FALSE, data |-> <<>>]
File(data) == [exists |-> TRUE, data |-> data]
Out(v) == [some |-> TRUE, value |-> v]
NoOutput == [some |-> FALSE, value |-> 0]
Seeded(seed) == [seeded |-> TRUE, seed |-> seed]
Unseeded == [seeded |-> FALSE, seed |-> 0]
SeedSet == {DefaultSeed, DefaultSeed + 1}

VARIABLES
    \* the session's fields
    model_params, model_mode, model_device, opt_state, grad,
    device, train_loader, val_loader, writer,
    losses, val_losses, total_epochs,
    \* the environment: the machine, the file system, the logger, the
    \* tensorboard event file, the global random generator
    cuda_available, disk, log_warnings, sink_records, sink_flushed, rng,
    \* the train call in progress
    pc, n_epochs, epoch, batch_i, mini_batch_loss, train_loss,
    \* history variables (written, never read by the program's actions)
    last_op, last_arg, err, call, step_returns, snap,
    loaded_from, output, resume

session == <<model_params, model_mode, model_device, opt_state, grad, device,
             train_loader, val_loader, writer, losses, val_losses, total_epochs>>
environment == <<cuda_available, disk, log_warnings, sink_records, sink_flushed, rng>>
frame == <<pc, n_epochs, epoch, batch_i, mini_batch_loss, train_loss>>
history == <<last_op, last_arg, err, call, step_returns, snap,
             loaded_from, output, resume>>
vars == <<session, environment, frame, history>>

\* ------------------------------------------------- the injected capabilities
\* The model's forward pass in evaluation mode, as a function of its
\* parameters and its input.
Forward(params, x) == (params + x) % 3

\* train_loss_fn(model(x), y) and val_loss_fn(model(x), y) on one batch.
TrainLoss(params, b) == (params + b.x) % 2
ValLoss(params, b) == (params + b.x + 1) % 2

\* loss.backward(): the gradient of the loss on one batch, which backward
\* adds to the gradient buffers of the parameters.
Gradient(params, b) == TrainLoss(params, b) + 1

\* optimizer.zero_grad(): the gradient buffers after it.
KeptGrad(g) == g
ZeroGrad(g) == 0

\* optimizer.step(): one update of the parameters and of the optimizer's
\* own state (its step count).
OptimizerStep(params) == params + 1
OptimizerState(state) == state + 1

\* ------------------------------------------------------------------- Init
NoCall ==
    [total_epochs |-> 0, losses |-> <<>>, val_losses |-> <<>>, params |-> 0,
     opt_state |-> 0,
     records |-> 0, flushed |-> 0, val_bound |-> FALSE, train_bound |-> FALSE,
     train_steps |-> 0, val_steps |-> 0, seeds |-> 0, flushes |-> 0,
     raised_in |-> "none", completed |-> 0, seed |-> 0, trace |-> <<>>]
NoReturns == [train |-> <<>>, val |-> <<>>]

NotLoaded == [path |-> "none", fresh |-> FALSE]
NewSession == [base |-> 0, requested |-> 0, fresh |-> TRUE]

\* The session's state as a train or load_model call finds it.
Entering ==
    [total_epochs |-> total_epochs, losses |-> losses, val_losses |-> val_losses,
     params |-> model_params, opt_state |-> opt_state,
     records |-> Len(sink_records), flushed |-> sink_flushed, val_bound |-> val_loader.bound,
     train_bound |-> train_loader.bound, train_steps |-> 0, val_steps |-> 0,
     seeds |-> 0, flushes |-> 0, raised_in |-> "none", completed |-> 0,
     seed |-> 0, trace |-> <<>>]

\* __init__: the state of a newly constructed session.
InitSession ==
    /\ model_params = 0
    /\ model_mode = "train"
    /\ model_device = "cpu"
    /\ opt_state = 0
    /\ grad = 0
    /\ device = NoDevice
    /\ train_loader = NoLoader
    /\ val_loader = NoLoader
    /\ writer = FALSE
    /\ losses = <<>>
    /\ val_losses = <<>>
    /\ total_epochs = 0

Init ==
    /\ InitSession
    /\ cuda_available \in BOOLEAN
    /\ disk = [p \in PathSet |-> NoFile]
    /\ log_warnings = 0
    /\ sink_records = <<>>
    /\ sink_flushed = 0
    /\ rng = Unseeded
    /\ pc = "idle"
    /\ n_epochs = 0
    /\ epoch = 0
    /\ batch_i = 0
    /\ mini_batch_loss = 0
    /\ train_loss = None
    /\ last_op = "init"
    /\ last_arg = "none"
    /\ err = "none"
    /\ call = NoCall
    /\ step_returns = NoReturns
    /\ snap = [p \in PathSet |-> NoFile]
    /\ loaded_from = NotLoaded
    /\ output = NoOutput
    /\ resume = NewSession

\* What every completed method call records.
Returned(op, arg) ==
    /\ last_op' = op
    /\ last_arg' = arg
    /\ err' = "none"

Raised(op, arg, e) ==
    /\ last_op' = op
    /\ last_arg' = arg
    /\ err' = e

\* ------------------------------------------------------------ to(device)
\* self.model.to(device) raises RuntimeError for a device the machine does
\* not have.
ModelToRaises(d) == ~(d = "cpu" \/ (d = "cuda" /\ cuda_available))

FallbackDevice == IF cuda_available THEN "cuda" ELSE "cpu"

\* The device the session is bound to when to(d) returns.
ToDeviceRequested(d) == d
ToDevice(d) == IF ModelToRaises(d) THEN FallbackDevice ELSE d

\* The number of warnings to(d) logs.
ToWarnings(d) == IF ModelToRaises(d) THEN 1 ELSE 0

To(d) ==
    /\ pc = "idle"
    /\ log_warnings + ToWarnings(d) <= MaxWarnings
    /\ device' = ToDevice(d)
    /\ model_device' = ToDevice(d)
    /\ log_warnings' = log_warnings + ToWarnings(d)
    /\ Returned("to", d)
    /\ UNCHANGED <<grad, model_params, model_mode, opt_state, train_loader, val_loader,
                   writer, losses, val_losses, total_epochs>>
    /\ UNCHANGED <<cuda_available, disk, sink_records, sink_flushed, rng>>
    /\ UNCHANGED frame
    /\ UNCHANGED <<call, step_returns, snap, loaded_from, output, resume>>

\* ------------------------------------------------------------ set_loaders
SetLoaders(t, v) ==
    /\ pc = "idle"
    /\ train_loader' = t
    /\ val_loader' = v
    /\ Returned("set_loaders", "none")
    /\ UNCHANGED <<grad, model_params, model_mode, model_device, opt_state, device,
                   writer, losses, val_losses, total_epochs>>
    /\ UNCHANGED environment
    /\ UNCHANGED frame
    /\ UNCHANGED <<call, step_returns, snap, loaded_from, output, resume>>

\* --------------------------------------------------------- set_tensorboard
\* A new SummaryWriter on a new, timestamped log directory.
SetTensorboard ==
    /\ pc = "idle"
    /\ writer' = TRUE
    /\ sink_records' = <<>>
    /\ sink_flushed' = 0
    /\ Returned("set_tensorboard", "none")
    /\ UNCHANGED <<grad, model_params, model_mode, model_device, opt_state, device,
                   train_loader, val_loader, losses, val_losses, total_epochs>>
    /\ UNCHANGED <<cuda_available, disk, log_warnings, rng>>
    /\ UNCHANGED frame
    /\ UNCHANGED <<call, step_returns, snap, loaded_from, output, resume>>

\* --------------------------------------------------------------- __init__
\* A new session on a new model and optimizer; the file system, the logger
\* and the machine stay as they are.
Construct ==
    /\ pc = "idle"
    /\ model_params' = 0
    /\ model_mode' = "train"
    /\ model_device' = "cpu"
    /\ opt_state' = 0
    /\ grad' = 0
    /\ device' = NoDevice
    /\ train_loader' = NoLoader
    /\ val_loader' = NoLoader
    /\ writer' = FALSE
    /\ losses' = <<>>
    /\ val_losses' = <<>>
    /\ total_epochs' = 0
    /\ Returned("init", "none")
    /\ call' = NoCall
    /\ step_returns' = NoReturns
    /\ loaded_from' = NotLoaded
    /\ output' = NoOutput
    /\ resume' = NewSession
    /\ UNCHANGED environment
    /\ UNCHANGED frame
    /\ UNCHANGED snap

\* ------------------------------------------------------------- save_model
\* The checkpoint dictionary save_model builds.
CheckpointNoOptimizer ==
    [model |-> model_params, optimizer |-> 0, total_epochs |-> total_epochs,
     losses |-> losses, val_losses |-> val_losses]
Checkpoint ==
    [model |-> model_params, optimizer |-> opt_state, total_epochs |-> total_epochs,
     losses |-> losses, val_losses |-> val_losses]

\* The saving session at the moment of the call, and what its predict
\* returns for every input.
Snapshot ==
    [exists |-> TRUE, params |-> model_params, opt_state |-> opt_state,
     total_epochs |-> total_epochs, losses |-> losses, val_losses |-> val_losses,
     pred |-> [x \in InputSet |-> Forward(model_params, x)]]

SaveModel(path) ==
    /\ pc = "idle"
    /\ disk' = [disk EXCEPT ![path] = File(Checkpoint)]
    /\ snap' = [snap EXCEPT ![path] = Snapshot]
    /\ Returned("save_model", path)
    /\ UNCHANGED session
    /\ UNCHANGED <<cuda_available, log_warnings, sink_records, sink_flushed, rng>>
    /\ UNCHANGED frame
    /\ UNCHANGED <<call, step_returns, loaded_from, output, resume>>

\* ------------------------------------------------------------- load_model
\* The histories load_model leaves in the session.
LoadedLossesMerged(checkpoint) == losses \o checkpoint["losses"]
LoadedLosses(checkpoint) == checkpoint["losses"]
LoadedValLossesKept(checkpoint) == val_losses
LoadedValLosses(checkpoint) == checkpoint["val_losses"]

\* self.model.load_state_dict(checkpoint['model']): the parameters after it.
LoadedParamsKept(checkpoint) == model_params
LoadedParams(checkpoint) == checkpoint["model"]

LoadedMode(eval_mode) == IF eval_mode THEN "eval" ELSE "train"

LoadModel(path, eval_mode) ==
    /\ pc = "idle"
    /\ disk[path].exists
    /\ LET checkpoint == disk[path].data
       IN  /\ model_params' = LoadedParams(checkpoint)
           /\ opt_state' = checkpoint["optimizer"]
           /\ total_epochs' = checkpoint["total_epochs"]
           /\ losses' = LoadedLosses(checkpoint)
           /\ val_losses' = LoadedValLosses(checkpoint)
           /\ resume' = [base |-> checkpoint["total_epochs"], requested |-> 0,
                         fresh |-> FALSE]
    /\ model_mode' = LoadedMode(eval_mode)
    /\ Returned("load_model", path)
    /\ call' = Entering
    /\ loaded_from' = [path |-> path, fresh |-> resume.fresh]
    /\ UNCHANGED <<grad, model_device, device, train_loader, val_loader, writer>>
    /\ UNCHANGED environment
    /\ UNCHANGED frame
    /\ UNCHANGED <<step_returns, snap, output>>

\* torch.load raises for a path that holds no file; nothing is changed.
LoadModelRaises(path) ==
    /\ pc = "idle"
    /\ ~disk[path].exists
    /\ Raised("load_model", path, "FileNotFoundError")
    /\ pc' = "raised"
    /\ UNCHANGED session
    /\ UNCHANGED environment
    /\ UNCHANGED <<n_epochs, epoch, batch_i, mini_batch_loss, train_loss>>
    /\ UNCHANGED <<call, step_returns, snap, loaded_from, output, resume>>

\* ---------------------------------------------------------------- predict
\* The mode predict puts the model in.
PredictModeKept == model_mode
PredictMode == "eval"

\* The parameters after self.model(x) under inference_mode.
InferenceParamsReset(params) == 0
InferenceParams(params) == params

Predict(x) ==
    /\ pc = "idle"
    /\ device # NoDevice
    /\ model_mode' = PredictMode
    /\ model_params' = InferenceParams(model_params)
    /\ output' = Out(Forward(model_params, x))
    /\ Returned("predict", x)
    /\ UNCHANGED <<grad, model_device, opt_state, device, train_loader,
                   val_loader, writer, losses, val_losses, total_epochs>>
    /\ UNCHANGED environment
    /\ UNCHANGED frame
    /\ UNCHANGED <<call, step_returns, snap, loaded_from, resume>>

\* Before to() was ever called the session has no device attribute:
\* x.to(self.device) raises after the model was put in evaluation mode.
PredictRaises(x) ==
    /\ pc = "idle"
    /\ device = NoDevice
    /\ model_mode' = PredictMode
    /\ output' = NoOutput
    /\ Raised("predict", x, "AttributeError")
    /\ pc' = "raised"
    /\ UNCHANGED <<grad, model_params, model_device, opt_state, device, train_loader,
                   val_loader, writer, losses, val_losses, total_epochs>>
    /\ UNCHANGED environment
    /\ UNCHANGED <<n_epochs, epoch, batch_i, mini_batch_loss, train_loss>>
    /\ UNCHANGED <<call, step_returns, snap, loaded_from, resume>>

\* ------------------------------------------------------------------ train
\* set_seed(seed): the state of the global generators after manual_seed.
SetSeedOnce(seed) == IF rng.seeded THEN rng ELSE Seeded(seed)
SetSeed(seed) == Seeded(seed)

\* train(n_epochs, seed): set_seed, then the epoch loop.
Train(n, seed) ==
    /\ pc = "idle"
    /\ total_epochs + n <= MaxTotalEpochs
    /\ writer => Len(sink_records) + n <= MaxRecords
    /\ rng' = SetSeed(seed)
    /\ n_epochs' = n
    /\ epoch' = 0
    /\ pc' = "loop"
    /\ Returned("train", n)
    /\ call' = [Entering EXCEPT !.seeds = 1, !.seed = seed]
    /\ step_returns' = NoReturns
    /\ loaded_from' = NotLoaded
    /\ resume' = [resume EXCEPT !.requested = @ + n, !.fresh = FALSE]
    /\ UNCHANGED session
    /\ UNCHANGED <<cuda_available, disk, log_warnings, sink_records, sink_flushed>>
    /\ UNCHANGED <<batch_i, mini_batch_loss, train_loss>>
    /\ UNCHANGED <<snap, output>>

\* for epoch in range(n_epochs): self.total_epochs += 1, and the training
\* pass begins.
EpochsRestarted == epoch + 1
EpochsAfterIncrement == total_epochs + 1

EpochStart ==
    /\ pc = "loop"
    /\ epoch < n_epochs
    /\ total_epochs' = EpochsAfterIncrement
    /\ pc' = "train_pass"
    /\ batch_i' = 0
    /\ mini_batch_loss' = 0
    /\ step_returns' = NoReturns
    /\ UNCHANGED <<grad, model_params, model_mode, model_device, opt_state, device,
                   train_loader, val_loader, writer, losses, val_losses>>
    /\ UNCHANGED environment
    /\ UNCHANGED <<n_epochs, epoch, train_loss>>
    /\ UNCHANGED <<last_op, last_arg, err, call, snap, loaded_from,
                   output, resume>>

\* An exception leaves train uncaught and ends the run: the call's frame is
\* gone, the session stays as the statements before the raise left it.
TrainRaises(e, where) ==
    /\ pc' = "raised"
    /\ n_epochs' = 0
    /\ epoch' = 0
    /\ batch_i' = 0
    /\ mini_batch_loss' = 0
    /\ train_loss' = None
    /\ err' = e
    /\ call' = [call EXCEPT !.raised_in = where, !.completed = epoch]
    /\ UNCHANGED <<last_op, last_arg, step_returns, snap, loaded_from, output, resume>>

\* _mini_batch: mini_batch_loss / len(data_loader).
MiniBatchMeanPerSample(sum, loader) ==
    LET RECURSIVE Samples(_)
        Samples(k) == IF k = 0 THEN 0 ELSE loader.batches[k].size + Samples(k - 1)
    IN  Float(sum, Samples(Len(loader.batches)))
MiniBatchMean(sum, loader) == Float(sum, Len(loader.batches))

\* for x, y in data_loader: the batch the loop body gets in its iteration
\* number i + 1.
BatchAtReversed(loader, i) == loader.batches[Len(loader.batches) - i]
BatchAt(loader, i) == loader.batches[i + 1]

\* What a step that returned leaves in the call's trace: which step ran, in
\* which epoch of the call, on which batch, and the value of total_epochs it
\* found.
Event(op, b) == [op |-> op, epoch |-> epoch, total |-> total_epochs, batch |-> b]

\* self.losses.append(...) and self.val_losses.append(...).
HistoryRestarted(hist, value) == <<value>>
HistoryAppend(hist, value) == Append(hist, value)

\* What _mini_batch returns for a loader that is None.
AbsentLossZero == Float(0, 1)
AbsentLoss == None

\* _mini_batch(): the train loader is None, the pass returns None.
TrainPassAbsent ==
    /\ pc = "train_pass"
    /\ ~train_loader.bound
    /\ train_loss' = AbsentLoss
    /\ losses' = HistoryAppend(losses, AbsentLoss)
    /\ pc' = "val_pass"
    /\ UNCHANGED <<grad, model_params, model_mode, model_device, opt_state, device,
                   train_loader, val_loader, writer, val_losses, total_epochs>>
    /\ UNCHANGED environment
    /\ UNCHANGED <<n_epochs, epoch, batch_i, mini_batch_loss>>
    /\ UNCHANGED history

\* One iteration of the loop of the training pass: the batch is moved to the
\* device and train_step runs on it.
TrainBatch ==
    /\ pc = "train_pass"
    /\ train_loader.bound
    /\ batch_i < Len(train_loader.batches)
    /\ device # NoDevice
    /\ LET b == BatchAt(train_loader, batch_i)
           loss == TrainLoss(model_params, b)
       IN  /\ b.ok
           /\ mini_batch_loss' = mini_batch_loss + loss
           /\ step_returns' = [step_returns EXCEPT !.train = Append(@, loss)]
           /\ call' = [call EXCEPT !.train_steps = @ + 1,
                                   !.trace = Append(@, Event("train", b))]
    /\ model_mode' = "train"
    /\ grad' = ZeroGrad(grad) + Gradient(model_params, BatchAt(train_loader, batch_i))
    /\ model_params' = OptimizerStep(model_params)
    /\ opt_state' = OptimizerState(opt_state)
    /\ batch_i' = batch_i + 1
    /\ UNCHANGED <<model_device, device, train_loader, val_loader, writer, losses,
                   val_losses, total_epochs>>
    /\ UNCHANGED environment
    /\ UNCHANGED <<pc, n_epochs, epoch, train_loss>>
    /\ UNCHANGED <<last_op, last_arg, err, snap, loaded_from, output,
                   resume>>

\* x.to(self.device) on a session that has no device attribute.
TrainBatchNoDevice ==
    /\ pc = "train_pass"
    /\ train_loader.bound
    /\ batch_i < Len(train_loader.batches)
    /\ device = NoDevice
    /\ TrainRaises("AttributeError", "train_pass")
    /\ UNCHANGED session
    /\ UNCHANGED environment

\* The forward pass of train_step raises on a misshaped batch, after
\* model.train() and optimizer.zero_grad().
TrainBatchRaises ==
    /\ pc = "train_pass"
    /\ train_loader.bound
    /\ batch_i < Len(train_loader.batches)
    /\ device # NoDevice
    /\ ~BatchAt(train_loader, batch_i).ok
    /\ model_mode' = "train"
    /\ grad' = ZeroGrad(grad)
    /\ TrainRaises("RuntimeError", "train_pass")
    /\ UNCHANGED <<model_params, model_device, opt_state, device, train_loader,
                   val_loader, writer, losses, val_losses, total_epochs>>
    /\ UNCHANGED environment

\* The training pass returns its mean, which train appends to losses.
TrainPassEnd ==
    /\ pc = "train_pass"
    /\ train_loader.bound
    /\ batch_i = Len(train_loader.batches)
    /\ Len(train_loader.batches) > 0
    /\ train_loss' = MiniBatchMean(mini_batch_loss, train_loader)
    /\ losses' = HistoryAppend(losses, train_loss')
    /\ pc' = "val_pass"
    /\ batch_i' = 0
    /\ mini_batch_loss' = 0
    /\ UNCHANGED <<grad, model_params, model_mode, model_device, opt_state, device,
                   train_loader, val_loader, writer, val_losses, total_epochs>>
    /\ UNCHANGED environment
    /\ UNCHANGED <<n_epochs, epoch>>
    /\ UNCHANGED history

\* len(data_loader) is 0: the division raises.
TrainPassEmpty ==
    /\ pc = "train_pass"
    /\ train_loader.bound
    /\ Len(train_loader.batches) = 0
    /\ TrainRaises("ZeroDivisionError", "train_pass")
    /\ UNCHANGED session
    /\ UNCHANGED environment

\* The scalars train hands to the writer: the validation loss is added
\* under "if val_loss:".
Scalars(tl, vl) ==
    IF Truthy(vl)
    THEN [k \in {"loss/train", "loss/val"} |-> IF k = "loss/train" THEN tl ELSE vl]
    ELSE [k \in {"loss/train"} |-> tl]

\* The global_step train passes to add_scalars: the loop variable.
RecordStepGlobal == total_epochs - 1
RecordStep == epoch

\* The rest of the loop body once the validation pass has returned val_loss.
EpochEnd(val_loss) ==
    /\ val_losses' = HistoryAppend(val_losses, val_loss)
    /\ sink_records' =
           IF writer
           THEN Append(sink_records,
                       [step |-> RecordStep, scalars |-> Scalars(train_loss, val_loss)])
           ELSE sink_records
    /\ epoch' = epoch + 1
    /\ pc' = "loop"
    /\ batch_i' = 0
    /\ mini_batch_loss' = 0
    /\ train_loss' = None

\* val_step: the parameters after a forward pass and a loss under no_grad,
\* with no backward pass and no optimizer step.
ValStepUpdated(params) == OptimizerStep(params)
ValStepParams(params) == params

\* _mini_batch(validation=True): the validation loader is None.
ValPassAbsent ==
    /\ pc = "val_pass"
    /\ ~val_loader.bound
    /\ EpochEnd(AbsentLoss)
    /\ UNCHANGED <<grad, model_params, model_mode, model_device, opt_state, device,
                   train_loader, val_loader, writer, losses, total_epochs>>
    /\ UNCHANGED <<cuda_available, disk, log_warnings, sink_flushed, rng>>
    /\ UNCHANGED n_epochs
    /\ UNCHANGED history

\* One iteration of the loop of the validation pass: val_step on a batch.
ValBatch ==
    /\ pc = "val_pass"
    /\ val_loader.bound
    /\ batch_i < Len(val_loader.batches)
    /\ device # NoDevice
    /\ LET b == BatchAt(val_loader, batch_i)
           loss == ValLoss(model_params, b)
       IN  /\ b.ok
           /\ mini_batch_loss' = mini_batch_loss + loss
           /\ step_returns' = [step_returns EXCEPT !.val = Append(@, loss)]
           /\ call' = [call EXCEPT !.val_steps = @ + 1,
                                   !.trace = Append(@, Event("val", b))]
    /\ model_mode' = "eval"
    /\ model_params' = ValStepParams(model_params)
    /\ batch_i' = batch_i + 1
    /\ UNCHANGED <<grad, model_device, opt_state, device, train_loader,
                   val_loader, writer, losses, val_losses, total_epochs>>
    /\ UNCHANGED environment
    /\ UNCHANGED <<pc, n_epochs, epoch, train_loss>>
    /\ UNCHANGED <<last_op, last_arg, err, snap, loaded_from, output,
                   resume>>

ValBatchNoDevice ==
    /\ pc = "val_pass"
    /\ val_loader.bound
    /\ batch_i < Len(val_loader.batches)
    /\ device = NoDevice
    /\ TrainRaises("AttributeError", "val_pass")
    /\ UNCHANGED session
    /\ UNCHANGED environment

\* The forward pass of val_step raises on a misshaped batch, after
\* model.eval().
ValBatchRaises ==
    /\ pc = "val_pass"
    /\ val_loader.bound
    /\ batch_i < Len(val_loader.batches)
    /\ device # NoDevice
    /\ ~BatchAt(val_loader, batch_i).ok
    /\ model_mode' = "eval"
    /\ TrainRaises("RuntimeError", "val_pass")
    /\ UNCHANGED <<grad, model_params, model_device, opt_state, device, train_loader,
                   val_loader, writer, losses, val_losses, total_epochs>>
    /\ UNCHANGED environment

ValPassEnd ==
    /\ pc = "val_pass"
    /\ val_loader.bound
    /\ batch_i = Len(val_loader.batches)
    /\ Len(val_loader.batches) > 0
    /\ EpochEnd(MiniBatchMean(mini_batch_loss, val_loader))
    /\ UNCHANGED <<grad, model_params, model_mode, model_device, opt_state, device,
                   train_loader, val_loader, writer, losses, total_epochs>>
    /\ UNCHANGED <<cuda_available, disk, log_warnings, sink_flushed, rng>>
    /\ UNCHANGED n_epochs
    /\ UNCHANGED history

ValPassEmpty ==
    /\ pc = "val_pass"
    /\ val_loader.bound
    /\ Len(val_loader.batches) = 0
    /\ TrainRaises("ZeroDivisionError", "val_pass")
    /\ UNCHANGED session
    /\ UNCHANGED environment

\* The loop is over: the writer, if any, is flushed and train returns.
TrainReturn ==
    /\ pc = "loop"
    /\ epoch = n_epochs
    /\ sink_flushed' = IF writer THEN Len(sink_records) ELSE sink_flushed
    /\ call' = [call EXCEPT !.flushes = IF writer THEN @ + 1 ELSE @]
    /\ pc' = "idle"
    /\ n_epochs' = 0
    /\ epoch' = 0
    /\ UNCHANGED session
    /\ UNCHANGED <<cuda_available, disk, log_warnings, sink_records, rng>>
    /\ UNCHANGED <<batch_i, mini_batch_loss, train_loss>>
    /\ UNCHANGED <<last_op, last_arg, err, step_returns, snap,
                   loaded_from, output, resume>>

\* ------------------------------------------------------------------- Next
\* The steps of a train call in progress.
TrainSteps ==
    \/ EpochStart
    \/ TrainPassAbsent
    \/ TrainBatch
    \/ TrainBatchNoDevice
    \/ TrainBatchRaises
    \/ TrainPassEnd
    \/ TrainPassEmpty
    \/ ValPassAbsent
    \/ ValBatch
    \/ ValBatchNoDevice
    \/ ValBatchRaises
    \/ ValPassEnd
    \/ ValPassEmpty
    \/ TrainReturn

Next ==
    \/ Construct
    \/ \E d \in DeviceSet : To(d)
    \/ \E t \in TrainLoaderSet, v \in ValLoaderSet : SetLoaders(t, v)
    \/ SetTensorboard
    \/ \E path \in PathSet : SaveModel(path)
    \/ \E path \in PathSet, eval_mode \in BOOLEAN : LoadModel(path, eval_mode)
    \/ \E path \in PathSet : LoadModelRaises(path)
    \/ \E x \in InputSet : Predict(x)
    \/ \E x \in InputSet : PredictRaises(x)
    \/ \E n \in 0..MaxTotalEpochs, seed \in SeedSet : Train(n, seed)
    \/ TrainSteps

\* Every method, every input.
Spec == Init /\ [][Next]_vars

\* A machine without CUDA.
InitCpu == Init /\ ~cuda_available

\* Training: a caller that binds the cpu and any loaders, and trains.
NextTrain ==
    \/ To("cpu")
    \/ \E t \in TrainLoaderSet, v \in ValLoaderSet : SetLoaders(t, v)
    \/ \E n \in 0..MaxTotalEpochs, seed \in SeedSet : Train(n, seed)
    \/ TrainSteps

SpecTrain == InitCpu /\ [][NextTrain]_vars

\* Metrics: a caller that binds the cpu, well-formed loaders and a writer,
\* and trains.
NextMetrics ==
    \/ To("cpu")
    \/ \E t \in {GoodLoader(1), GoodLoader(MaxBatches)},
          v \in {NoLoader, GoodLoader(1), GoodLoader(MaxBatches)} : SetLoaders(t, v)
    \/ SetTensorboard
    \/ \E n \in 0..MaxTotalEpochs, seed \in SeedSet : Train(n, seed)
    \/ EpochStart
    \/ TrainPassAbsent
    \/ TrainBatch
    \/ TrainBatchNoDevice
    \/ TrainPassEnd
    \/ ValPassAbsent
    \/ ValBatch
    \/ ValPassEnd
    \/ TrainReturn

SpecMetrics == InitCpu /\ [][NextMetrics]_vars

\* Checkpointing: sessions that train on well-formed loaders, with or
\* without a validation loader, save to and load from one path, and predict.
NextCheckpoint ==
    \/ Construct
    \/ To("cpu")
    \/ \E v \in {NoLoader, GoodLoader(1)} : SetLoaders(GoodLoader(MaxBatches), v)
    \/ SaveModel("a.pt")
    \/ \E eval_mode \in BOOLEAN : LoadModel("a.pt", eval_mode)
    \/ LoadModelRaises("a.pt")
    \/ \E x \in InputSet : Predict(x)
    \/ \E x \in InputSet : PredictRaises(x)
    \/ \E n \in 0..MaxTotalEpochs, seed \in SeedSet : Train(n, seed)
    \/ EpochStart
    \/ TrainPassAbsent
    \/ TrainBatch
    \/ TrainBatchNoDevice
    \/ TrainPassEnd
    \/ ValPassAbsent
    \/ ValBatch
    \/ ValPassEnd
    \/ TrainReturn

SpecCheckpoint == InitCpu /\ [][NextCheckpoint]_vars

\* Device binding: sessions on machines with and without CUDA that bind any
\* device, predict, and train without loaders.
NextDevice ==
    \/ Construct
    \/ \E d \in DeviceSet : To(d)
    \/ \E x \in InputSet : Predict(x)
    \/ \E x \in InputSet : PredictRaises(x)
    \/ \E n \in 0..MaxTotalEpochs, seed \in SeedSet : Train(n, seed)
    \/ EpochStart
    \/ TrainPassAbsent
    \/ ValPassAbsent
    \/ TrainReturn

SpecDevice == Init /\ [][NextDevice]_vars

\* Isolation: one session that trains on a loader of one batch, saves to
\* and loads from two paths.
NextIsolation ==
    \/ To("cpu")
    \/ SetLoaders(GoodLoader(1), NoLoader)
    \/ \E path \in PathSet : SaveModel(path)
    \/ \E path \in PathSet, eval_mode \in BOOLEAN : LoadModel(path, eval_mode)
    \/ \E path \in PathSet : LoadModelRaises(path)
    \/ \E n \in 0..MaxTotalEpochs : Train(n, DefaultSeed)
    \/ EpochStart
    \/ TrainPassAbsent
    \/ TrainBatch
    \/ TrainBatchNoDevice
    \/ TrainPassEnd
    \/ ValPassAbsent
    \/ TrainReturn

SpecIsolation == InitCpu /\ [][NextIsolation]_vars

\* Termination: a caller that binds the cpu and finite loaders of well-formed
\* batches (of no batch, of one, of MaxBatches), and trains.  A call that was
\* entered keeps running: the interpreter executes its next statement.
LiveSteps ==
    \/ EpochStart
    \/ TrainPassAbsent
    \/ TrainBatch
    \/ TrainBatchNoDevice
    \/ TrainPassEnd
    \/ TrainPassEmpty
    \/ ValPassAbsent
    \/ ValBatch
    \/ ValPassEnd
    \/ TrainReturn

NextLive ==
    \/ To("cpu")
    \/ \E t \in {GoodLoader(0), GoodLoader(1), GoodLoader(MaxBatches)},
          v \in {NoLoader, GoodLoader(1)} : SetLoaders(t, v)
    \/ \E n \in 0..MaxTotalEpochs : Train(n, DefaultSeed)
    \/ LiveSteps

SpecLive == InitCpu /\ [][NextLive]_vars /\ WF_vars(LiveSteps)

TypeOK ==
    /\ total_epochs \in 0..MaxTotalEpochs
    /\ pc \in {"idle", "loop", "train_pass", "val_pass", "raised"}
    /\ model_mode \in {"train", "eval"}
    /\ device \in DeviceSet \cup {NoDevice}
    /\ Len(sink_records) <= MaxRecords
    /\ log_warnings <= MaxWarnings

\* ----------------------------------------------------------------- claims
Last(seq) == seq[Len(seq)]

RECURSIVE SeqSum(_)
SeqSum(seq) == IF seq = <<>> THEN 0 ELSE seq[1] + SeqSum(Tail(seq))

Absents(n) == [i \in 1..n |-> None]

RECURSIVE OptimizerStepN(_, _)
OptimizerStepN(params, k) ==
    IF k = 0 THEN params ELSE OptimizerStepN(OptimizerStep(params), k - 1)

\* C1: whenever no call is in progress and none has raised (every train,
\* set_loaders, predict, save_model and load_model so far completed), both
\* histories are as long as total_epochs.
C1_HistoriesTrackEpochs ==
    pc = "idle" => Len(losses) = total_epochs /\ Len(val_losses) = total_epochs

\* A session that loaded a checkpoint of at least one epoch and then
\* completed a train call of at least one more.
C1_Witness ==
    /\ pc = "idle"
    /\ last_op = "train"
    /\ resume.base >= 1
    /\ resume.requested >= 1
    /\ Len(losses) = total_epochs
    /\ Len(val_losses) = total_epochs
    /\ total_epochs >= 2

\* C2: completed train calls add up: total_epochs is its value at
\* construction (or at the last load_model) plus the n_epochs of every train
\* call since, and both histories have that length; no call restarts the
\* count.
C2_Resumable ==
    pc = "idle" =>
        /\ total_epochs = resume.base + resume.requested
        /\ Len(losses) = resume.base + resume.requested
        /\ Len(val_losses) = resume.base + resume.requested

\* A completed train(b), b >= 1, on a session that earlier train calls had
\* already advanced.
C2_Witness ==
    /\ pc = "idle"
    /\ last_op = "train"
    /\ last_arg >= 1
    /\ call.total_epochs >= 1
    /\ total_epochs = call.total_epochs + last_arg

\* C3: a session that was newly constructed when it loaded a checkpoint has
\* the total_epochs, losses, val_losses, parameters and optimizer state the
\* saving session had when it saved, and its predict returns what the saving
\* session's predict returned then, for every input.
C3_RoundTrip ==
    loaded_from.fresh =>
        LET saved == snap[loaded_from.path]
        IN  /\ saved.exists
            /\ total_epochs = saved.total_epochs
            /\ losses = saved.losses
            /\ val_losses = saved.val_losses
            /\ model_params = saved.params
            /\ opt_state = saved.opt_state
            /\ (pc = "idle" /\ last_op = "predict") =>
                   output = Out(saved.pred[last_arg])

\* A new session that loaded the checkpoint of a trained one, and predicted.
C3_Witness ==
    /\ loaded_from.fresh
    /\ pc = "idle"
    /\ last_op = "predict"
    /\ output.some
    /\ total_epochs >= 1
    /\ model_params >= 1
    /\ opt_state >= 1
    /\ Len(losses) >= 1

\* C4 (as claimed): when a step function raises in the middle of an epoch,
\* both histories hold the entries of the epochs completed before the
\* failure and nothing else, and total_epochs counts those epochs too.
C4_ConsistentAfterRaise ==
    (pc = "raised" /\ last_op = "train" /\ err = "RuntimeError") =>
        /\ Len(losses) = call.total_epochs + call.completed
        /\ Len(val_losses) = call.total_epochs + call.completed
        /\ total_epochs = Len(losses)
        /\ total_epochs = Len(val_losses)

\* C5: a train(n) call that starts with no validation loader never runs a
\* validation step and never raises in its validation pass, and does not
\* raise at all when the device is bound and the train loader is bound, not
\* empty and well formed; when it returns, val_losses is what it was plus n
\* absent entries, and with a train loader of B batches bound the call has
\* run n * B training steps, each of which updated the parameters.
C5_NoValidation ==
    (last_op = "train" /\ ~call.val_bound) =>
        /\ call.val_steps = 0
        /\ call.raised_in # "val_pass"
        /\ ( /\ device # NoDevice
             /\ train_loader.bound
             /\ train_loader.batches # <<>>
             /\ \A i \in DOMAIN train_loader.batches : train_loader.batches[i].ok )
           => pc # "raised"
        /\ pc = "idle" =>
               /\ val_losses = call.val_losses \o Absents(last_arg)
               /\ call.train_bound =>
                      /\ call.train_steps = last_arg * Len(train_loader.batches)
                      /\ model_params = OptimizerStepN(call.params, call.train_steps)

\* A completed train call without validation, on a session whose earlier
\* call recorded a validation loss.
C5_Witness ==
    /\ pc = "idle"
    /\ last_op = "train"
    /\ ~call.val_bound
    /\ call.train_bound
    /\ last_arg >= 1
    /\ call.val_losses # <<>>
    /\ call.val_losses[1].some
    /\ ~Last(val_losses).some
    /\ model_params > call.params

\* C6: when a predict call has returned, the model is in evaluation mode.
C6_PredictLeavesEval ==
    (pc = "idle" /\ last_op = "predict") => model_mode = "eval"

\* predict on a session whose last train call ran without validation, which
\* leaves the model in training mode.
C6_Witness ==
    /\ pc = "idle"
    /\ last_op = "predict"
    /\ loaded_from = NotLoaded
    /\ ~call.val_bound
    /\ call.train_steps >= 1
    /\ model_mode = "eval"

\* C7: when an epoch ends, the value it appended to losses is the sum of the
\* losses the training step returned for the B batches of the train loader
\* divided by B, whatever the sizes of the batches, and the value appended to
\* val_losses is the same mean over the validation loader.
C7_EpochMean ==
    (pc = "loop" /\ epoch > 0) =>
        /\ train_loader.bound =>
               /\ Len(step_returns.train) = Len(train_loader.batches)
               /\ Last(losses) =
                      Float(SeqSum(step_returns.train), Len(train_loader.batches))
        /\ val_loader.bound =>
               /\ Len(step_returns.val) = Len(val_loader.batches)
               /\ Last(val_losses) =
                      Float(SeqSum(step_returns.val), Len(val_loader.batches))

\* An epoch over two train batches of different sizes and nonzero losses,
\* with a validation pass.
C7_Witness ==
    /\ pc = "loop"
    /\ epoch > 0
    /\ Len(step_returns.train) >= 2
    /\ train_loader.batches[1].size # train_loader.batches[2].size
    /\ SeqSum(step_returns.train) > 0
    /\ Len(step_returns.val) >= 1
    /\ Last(losses).some
    /\ Last(val_losses).some

\* C8: when load_model has returned, the parameters, the optimizer state,
\* total_epochs, losses and val_losses are those of the checkpoint file, and
\* nothing else: no entry of the histories the session had before remains.
C8_LoadReplaces ==
    (pc = "idle" /\ last_op = "load_model") =>
        LET checkpoint == disk[last_arg].data
        IN  /\ model_params = checkpoint["model"]
            /\ opt_state = checkpoint["optimizer"]
            /\ total_epochs = checkpoint["total_epochs"]
            /\ losses = checkpoint["losses"]
            /\ val_losses = checkpoint["val_losses"]

\* load_model on a session whose histories were not empty and were not
\* those of the checkpoint.
C8_Witness ==
    /\ pc = "idle"
    /\ last_op = "load_model"
    /\ call.losses # <<>>
    /\ losses # <<>>
    /\ call.losses # losses
    /\ call.val_losses # val_losses
    /\ call.params # model_params
    /\ call.total_epochs # total_epochs

\* C9 (as claimed): with a writer bound, every epoch of a train call adds
\* one record; the record holds the epoch's train loss, and holds the
\* epoch's validation loss exactly when the validation pass returned a
\* number rather than None.
C9_RecordPerEpoch ==
    (pc = "loop" /\ writer) =>
        /\ Len(sink_records) = call.records + epoch
        /\ epoch > 0 =>
               LET scalars == Last(sink_records).scalars
               IN  /\ "loss/train" \in DOMAIN scalars
                   /\ scalars["loss/train"] = Last(losses)
                   /\ ("loss/val" \in DOMAIN scalars) <=> Last(val_losses).some
                   /\ "loss/val" \in DOMAIN scalars =>
                          scalars["loss/val"] = Last(val_losses)

\* C10: to(d) with a device the machine does not have binds the session and
\* the model to cuda if the machine has it and to cpu otherwise, and logs one
\* warning; to(d) with a device the machine has binds both to d and logs
\* nothing.  Either way the call returns.
C10_DeviceFallback ==
    [][last_op' = "to" =>
          LET d == last_arg'
              available == d = "cpu" \/ (d = "cuda" /\ cuda_available)
              default == IF cuda_available THEN "cuda" ELSE "cpu"
          IN  /\ pc' = "idle"
              /\ err' = "none"
              /\ device' = IF available THEN d ELSE default
              /\ model_device' = device'
              /\ log_warnings' = log_warnings + (IF available THEN 0 ELSE 1)]_vars

\* to("cuda") on a machine without CUDA has fallen back to the cpu.
C10_Witness ==
    /\ pc = "idle"
    /\ last_op = "to"
    /\ last_arg = "cuda"
    /\ ~cuda_available
    /\ device = "cpu"
    /\ model_device = "cpu"
    /\ log_warnings >= 1

\* C11: from the start of a train call on, the histories the call found are
\* a prefix of the histories: the call only appends, it changes and removes
\* no entry that an earlier call (or load_model) left.
C11_AppendOnly ==
    last_op = "train" =>
        /\ Len(call.losses) <= Len(losses)
        /\ SubSeq(losses, 1, Len(call.losses)) = call.losses
        /\ Len(call.val_losses) <= Len(val_losses)
        /\ SubSeq(val_losses, 1, Len(call.val_losses)) = call.val_losses

\* A completed train(b), b >= 1, after an earlier call had left entries.
C11_Witness ==
    /\ pc = "idle"
    /\ last_op = "train"
    /\ call.losses # <<>>
    /\ call.val_losses # <<>>
    /\ Len(losses) > Len(call.losses)
    /\ Len(val_losses) > Len(call.val_losses)

\* C12: at every point of a train call, from its first state on (so before
\* its first training step) and after it, the generators are as the one
\* set_seed of that call left them, with that call's seed; this holds on a
\* resumed call too, and a completed train(0) has done this and has left
\* total_epochs and both histories as it found them.
C12_SeededOncePerCall ==
    last_op = "train" =>
        /\ call.seeds = 1
        /\ rng = Seeded(call.seed)
        /\ (pc = "idle" /\ last_arg = 0) =>
               /\ total_epochs = call.total_epochs
               /\ losses = call.losses
               /\ val_losses = call.val_losses

\* A train step of a resumed call whose seed is not the one the generators
\* had when the call began.
C12_Witness ==
    /\ last_op = "train"
    /\ call.total_epochs >= 1
    /\ call.seed # DefaultSeed
    /\ call.train_steps >= 1
    /\ rng = Seeded(call.seed)

\* A completed train(0) on a session that had trained before.
C12_WitnessZero ==
    /\ pc = "idle"
    /\ last_op = "train"
    /\ last_arg = 0
    /\ call.total_epochs >= 1
    /\ call.seeds = 1

\* The batches of a loader, none for a loader that is None.
BatchesOf(loader) == IF loader.bound THEN loader.batches ELSE <<>>

\* The steps of epoch e (0-based) of a call that found total_epochs = base:
\* the training step on every train batch in the loader's order, then the
\* validation step on every validation batch in the loader's order, all of
\* them after the increment of total_epochs.
EpochSteps(base, e) ==
    [i \in 1..Len(BatchesOf(train_loader)) |->
        [op |-> "train", epoch |-> e, total |-> base + e + 1,
         batch |-> BatchesOf(train_loader)[i]]]
    \o [i \in 1..Len(BatchesOf(val_loader)) |->
        [op |-> "val", epoch |-> e, total |-> base + e + 1,
         batch |-> BatchesOf(val_loader)[i]]]

RECURSIVE CallSteps(_, _)
CallSteps(base, n) ==
    IF n = 0 THEN <<>> ELSE CallSteps(base, n - 1) \o EpochSteps(base, n - 1)

IsPrefix(s, t) == Len(s) <= Len(t) /\ SubSeq(t, 1, Len(s)) = s

\* C13: the steps a train call has run so far are an initial part of: for
\* each epoch in turn, after the increment of total_epochs, the training
\* step on every train batch once in the loader's order, then the validation
\* step on every validation batch once in the loader's order.  While the
\* call runs the steps run are exactly the completed epochs and the part of
\* the current pass before the current batch; a completed call has run all.
C13_EpochOrder ==
    last_op = "train" =>
        /\ IsPrefix(call.trace, CallSteps(call.total_epochs, last_arg))
        /\ pc = "idle" => call.trace = CallSteps(call.total_epochs, last_arg)
        /\ pc = "loop" => call.trace = CallSteps(call.total_epochs, epoch)
        /\ pc = "train_pass" =>
               /\ total_epochs = call.total_epochs + epoch + 1
               /\ Len(call.trace) =
                      Len(CallSteps(call.total_epochs, epoch)) + batch_i
        /\ pc = "val_pass" =>
               Len(call.trace) =
                   Len(CallSteps(call.total_epochs, epoch))
                   + Len(BatchesOf(train_loader)) + batch_i

\* A completed call of two epochs over two train batches and two validation
\* batches.
C13_Witness ==
    /\ pc = "idle"
    /\ last_op = "train"
    /\ last_arg >= 2
    /\ Len(BatchesOf(train_loader)) >= 2
    /\ Len(BatchesOf(val_loader)) >= 2
    /\ Len(call.trace) = last_arg * (Len(BatchesOf(train_loader))
                                     + Len(BatchesOf(val_loader)))

\* The batch of the last training step of a trace that has one.
LastTrainBatch(trace) ==
    LET last == CHOOSE i \in 1..Len(trace) :
                    /\ trace[i].op = "train"
                    /\ \A j \in (i + 1)..Len(trace) : trace[j].op # "train"
    IN  trace[last].batch

\* The forward pass of a training step raised in the call.
TrainStepRaised ==
    pc = "raised" /\ call.raised_in = "train_pass" /\ err = "RuntimeError"

\* C14: in a train call, every training step that returned made exactly one
\* optimizer update (of the parameters and of the optimizer's state), and
\* the gradient buffers hold the gradient of the last step's batch alone, at
\* the parameters that step started from: they were cleared before its
\* backward pass, and its forward and backward passes came before its
\* update.  A step whose forward pass raised has set training mode and
\* cleared the gradients and has made no update.  A completed train(n) over
\* B train batches has made n * B updates.
C14_TrainStep ==
    last_op = "train" =>
        /\ opt_state = call.opt_state + call.train_steps
        /\ model_params = OptimizerStepN(call.params, call.train_steps)
        /\ (call.train_steps >= 1 /\ ~TrainStepRaised) =>
               grad = Gradient(OptimizerStepN(call.params, call.train_steps - 1),
                               LastTrainBatch(call.trace))
        /\ (pc = "train_pass" /\ batch_i >= 1) => model_mode = "train"
        /\ TrainStepRaised => model_mode = "train" /\ grad = 0
        /\ pc = "idle" =>
               call.train_steps = last_arg * Len(BatchesOf(train_loader))

\* A completed call of two epochs over two train batches with a validation
\* pass in between: four updates.
C14_Witness ==
    /\ pc = "idle"
    /\ last_op = "train"
    /\ last_arg >= 2
    /\ Len(BatchesOf(train_loader)) >= 2
    /\ call.val_steps >= 2
    /\ call.train_steps = last_arg * Len(BatchesOf(train_loader))
    /\ opt_state = call.opt_state + call.train_steps
    /\ grad # 0

\* C15: no step of a validation pass (a validation step that returns or
\* raises, or the end of the pass) changes the model's parameters, the
\* optimizer's state, the gradient buffers or the model's device; if it
\* changes the mode, it changes it to evaluation.
C15_ValidationReadOnly ==
    [][pc = "val_pass" =>
          /\ model_params' = model_params
          /\ opt_state' = opt_state
          /\ grad' = grad
          /\ model_device' = model_device
          /\ model_mode' \in {model_mode, "eval"}]_vars

\* A validation step has run after the training steps of its epoch: the
\* parameters are those the training steps left, the mode is evaluation.
C15_Witness ==
    /\ pc = "val_pass"
    /\ batch_i >= 1
    /\ call.train_steps >= 1
    /\ call.val_steps >= 1
    /\ model_mode = "eval"
    /\ model_params = OptimizerStepN(call.params, call.train_steps)
    /\ opt_state = call.opt_state + call.train_steps

\* C16: what a pass returns for a loader that is None is not the loss 0.0.
\* A train call that found no train loader runs no training step and is
\* never ended by its training pass; if it found no validation loader
\* either it is not ended by an exception at all; once it has completed,
\* total_epochs has advanced by n_epochs, losses has n_epochs more entries,
\* all absent, and so has val_losses if there was no validation loader.
C16_AbsentPass ==
    /\ AbsentLoss # Float(0, 1)
    /\ ~AbsentLoss.some
    /\ (last_op = "train" /\ ~call.train_bound) =>
           /\ call.train_steps = 0
           /\ call.raised_in # "train_pass"
           /\ ~call.val_bound => pc # "raised"
           /\ pc = "val_pass" => train_loss = None
           /\ pc = "idle" =>
                  /\ total_epochs = call.total_epochs + last_arg
                  /\ losses = call.losses \o Absents(last_arg)
                  /\ ~call.val_bound =>
                         val_losses = call.val_losses \o Absents(last_arg)

\* A completed train(2) on a session with no train loader and a validation
\* loader whose steps ran.
C16_Witness ==
    /\ pc = "idle"
    /\ last_op = "train"
    /\ last_arg >= 2
    /\ ~call.train_bound
    /\ call.val_steps >= 2
    /\ total_epochs = call.total_epochs + last_arg
    /\ losses = call.losses \o Absents(last_arg)

\* A train call has just been entered on a session bound to a device.
EpochRunning == pc = "loop" /\ epoch = 0 /\ last_op = "train" /\ device # NoDevice

\* The train call has returned after n_epochs epochs.
Completed ==
    pc = "idle" /\ last_op = "train" /\ total_epochs = call.total_epochs + last_arg

\* C17: with finite loaders of well-formed batches, every train(n) that was
\* entered, a first call or a further one, eventually returns, after
\* exactly n epochs.
C17_TrainCompletes == EpochRunning ~> Completed

\* The checkpoint of a session that was in the state sn when it saved.
CheckpointOf(sn) ==
    [model |-> sn.params, optimizer |-> sn.opt_state,
     total_epochs |-> sn.total_epochs, losses |-> sn.losses,
     val_losses |-> sn.val_losses]

\* C18: whatever the session has done since (train calls, load_model of this
\* or of another checkpoint, save_model to another path), the file at a path
\* holds the saving session's state at the moment of the last save_model to
\* that path, and a load_model of it leaves the session with exactly that
\* state.
C18_SnapshotIsolation ==
    /\ \A path \in PathSet :
           disk[path].exists =>
               /\ snap[path].exists
               /\ disk[path].data = CheckpointOf(snap[path])
    /\ (last_op = "load_model" /\ err = "none") =>
           /\ model_params = snap[last_arg].params
           /\ opt_state = snap[last_arg].opt_state
           /\ total_epochs = snap[last_arg].total_epochs
           /\ losses = snap[last_arg].losses
           /\ val_losses = snap[last_arg].val_losses

\* load_model("a.pt") of a checkpoint saved after one epoch, on the saving
\* session after it had trained on and had saved and loaded the later state
\* as "b.pt".
C18_Witness ==
    /\ last_op = "load_model"
    /\ err = "none"
    /\ last_arg = "a.pt"
    /\ snap["a.pt"].total_epochs = 1
    /\ snap["b.pt"].exists
    /\ snap["b.pt"].total_epochs = 2
    /\ loaded_from.path = "a.pt"
    /\ call.total_epochs = 2
    /\ call.params # snap["a.pt"].params
    /\ total_epochs = 1
    /\ losses = snap["a.pt"].losses
    /\ model_params = snap["a.pt"].params

\* C19: with a writer bound, the i-th record a train call has written is
\* tagged i - 1, whatever total_epochs was when the call began; the call
\* does not flush the writer while it runs, and when it has returned it has
\* written n_epochs records and has flushed once, after the last of them.
C19_StepIndex ==
    (last_op = "train" /\ writer) =>
        /\ \A i \in 1..(Len(sink_records) - call.records) :
               sink_records[call.records + i].step = i - 1
        /\ pc \in {"loop", "train_pass", "val_pass"} =>
               /\ call.flushes = 0
               /\ sink_flushed = call.flushed
               /\ Len(sink_records) = call.records + epoch
        /\ pc = "idle" =>
               /\ call.flushes = 1
               /\ Len(sink_records) = call.records + last_arg
               /\ sink_flushed = Len(sink_records)

\* A completed train(1) on a session that had already trained an epoch and
\* written its record: the new record is tagged 0 again.
C19_Witness ==
    /\ pc = "idle"
    /\ last_op = "train"
    /\ writer
    /\ last_arg >= 1
    /\ call.total_epochs >= 1
    /\ call.records >= 1
    /\ Len(sink_records) = call.records + last_arg
    /\ sink_records[call.records + 1].step = 0
    /\ sink_records[call.records].step = 0
    /\ call.flushes = 1

\* C20: a predict call, one that returns or one that raises, in any state
\* it is called in, leaves total_epochs, both histories, the parameters, the
\* optimizer's state, the gradient buffers, both loaders, the writer and its
\* records, the device and the files as they were; of the session only the
\* model's mode may differ, and it is evaluation.
C20_PredictFrame ==
    [][(pc = "idle" /\ last_op' = "predict") =>
          /\ UNCHANGED <<total_epochs, losses, val_losses, model_params, opt_state,
                         grad, train_loader, val_loader, writer, device,
                         model_device>>
          /\ UNCHANGED <<sink_records, sink_flushed, disk, rng>>
          /\ model_mode' = "eval"]_vars

\* predict has returned on a session that had trained with validation, in
\* training mode before the call or not: its histories and parameters are
\* those the train call left.
C20_Witness ==
    /\ pc = "idle"
    /\ last_op = "predict"
    /\ output.some
    /\ total_epochs >= 2
    /\ Len(losses) = total_epochs
    /\ Len(val_losses) = total_epochs
    /\ call.val_steps >= 1
    /\ model_params = OptimizerStepN(call.params, call.train_steps)
    /\ model_params # 0
    /\ model_mode = "eval"

====
